---- MODULE Spec2Model ----
(***************************************************************************)
(* State-machine model of the SseClient component (src/app/page.tsx):      *)
(* the connection lifecycle (connect / cleanup / EventSource callbacks /   *)
(* backoff timers), the bounded event buffer (pushMessage) and the         *)
(* side-channel sender (sendManual).                                       *)
(*                                                                         *)
(* The component's handlers are operators on a record s holding the        *)
(* component state; every action of the state machine applies one handler  *)
(* to the current state.  The EventSource transport, the timer queue and   *)
(* the fetch primitive are the environment: the actions say when they      *)
(* deliver a callback, the handlers say what the component does with it.   *)
(***************************************************************************)
EXTENDS Integers, Sequences, FiniteSets, TLC

VARIABLES
    esRef,            \* useRef<EventSource|null>: the tracked handle, NoHandle = null
    readyState,       \* readyState of every EventSource created so far (handle h = index h)
    connected,        \* useState(false)
    statusText,       \* useState("idle")
    messages,         \* useState([]): the event buffer, newest first
    attempts,         \* useState(0)
    attemptsRef,      \* useRef(0)
    manualPayload,    \* useState('{ "msg": "hello from client" }')
    timers,           \* pending setTimeout callbacks, in scheduling order
    inflight,         \* the calls of sendManual suspended at an await: the body posted and,
                      \* once the fetch resolved, the response whose res.json() is awaited
    reconnectOnError, \* the component's prop (fixed for the instance)
    log,              \* history: every record ever given to pushMessage, oldest first
    errorsSinceOpen,  \* history: error callbacks run since the last open callback
    op,               \* history: the step that led to the current state
    nConnects,        \* history: calls of connect() so far
    nEvents,          \* history: transport callbacks delivered so far
    nSends,           \* history: calls of sendManual() so far
    released          \* history: handles that were open when an explicit connect replaced them

vars == <<esRef, readyState, connected, statusText, messages, attempts, attemptsRef,
          manualPayload, timers, inflight, reconnectOnError, log, errorsSinceOpen,
          op, nConnects, nEvents, nSends, released>>

-----------------------------------------------------------------------------
(* Bounds of the exploration.                                              *)

MaxConnects == 1
MaxEvents == 2
MaxSends == 1
LifeConnects == 3
LifeEvents == 4
BackoffEvents == 10
MaxFrames == 2
LiveConnects == 2
LiveErrors == 2
SendCalls == 2
MaxBurst == 250

-----------------------------------------------------------------------------
(* Program constants.                                                      *)

NoHandle == 0
BufferCap == 200
BackoffCap == 30000
BackoffBase == 1000
ExpCap == 6

fullUrl == "http://localhost:3001"
DefaultPayload == "{ \"msg\": \"hello from client\" }"
Undefined == "<undefined>"

-----------------------------------------------------------------------------
(* Helpers for the JavaScript primitives the handlers use.                 *)

Min(a, b) == IF a <= b THEN a ELSE b

Max(a, b) == IF a >= b THEN a ELSE b

RECURSIVE Pow(_, _)
Pow(b, e) == IF e = 0 THEN 1 ELSE b * Pow(b, e - 1)

\* Math.round(x / 1000) for x >= 0
RoundSeconds(x) == (x + 500) \div 1000

\* Array.prototype.slice(0, k)
Slice0(seq, k) == SubSeq(seq, 1, Min(k, Len(seq)))

\* the character V8 names in the SyntaxError of JSON.parse, for the strings of
\* the model that are not JSON ("not json", "<html>" and the stream payloads
\* "beat k")
BadToken(str) ==
    CASE str = "not json" -> "o"
      [] str = "<html>" -> "<"
      [] OTHER -> "b"

\* String(err) of the SyntaxError JSON.parse and res.json() throw (V8)
SyntaxErrorText(str) ==
    IF str = ""
    THEN "SyntaxError: Unexpected end of JSON input"
    ELSE "SyntaxError: Unexpected token '" \o BadToken(str) \o "', \"" \o str
             \o "\" is not valid JSON"

\* JSON.parse on the strings the model uses: the compact text of the decoded
\* value when the string is JSON, the SyntaxError's text otherwise.
JSONParse(str) ==
    CASE str = DefaultPayload -> [ok |-> TRUE, value |-> "{\"msg\":\"hello from client\"}"]
      [] str = "{\"a\":1}" -> [ok |-> TRUE, value |-> "{\"a\":1}"]
      [] str = "{\"a\": 1}" -> [ok |-> TRUE, value |-> "{\"a\":1}"]
      [] str = "{\"a\":2}" -> [ok |-> TRUE, value |-> "{\"a\":2}"]
      [] str = "{ \"ok\": true }" -> [ok |-> TRUE, value |-> "{\"ok\":true}"]
      [] str = "{\"error\": \"boom\"}" -> [ok |-> TRUE, value |-> "{\"error\":\"boom\"}"]
      [] str = "7" -> [ok |-> TRUE, value |-> "7"]
      [] str = "\"abc\"" -> [ok |-> TRUE, value |-> "\"abc\""]
      [] str = "null" -> [ok |-> TRUE, value |-> "null"]
      [] str = "true" -> [ok |-> TRUE, value |-> "true"]
      [] str = "[]" -> [ok |-> TRUE, value |-> "[]"]
      [] OTHER -> [ok |-> FALSE, value |-> SyntaxErrorText(str)]

RemoveAt(seq, i) == SubSeq(seq, 1, i - 1) \o SubSeq(seq, i + 1, Len(seq))

\* no response yet: the fetch is still pending
NoResponse == [rejected |-> FALSE, status |-> 0, body |-> ""]

\* a decoded (structured) value and a plain string as held in a record's data
Structured(v) == [t |-> "json", v |-> v]

Text(str) == [t |-> "string", v |-> str]

\* JSON.stringify of a decoded value
JSONStringify(d) == d.v

\* the try { data = JSON.parse(raw) } catch { keep as string } idiom
ParseOrRaw(raw) ==
    LET r == JSONParse(raw)
    IN IF r.ok THEN Structured(r.value) ELSE Text(raw)

\* object literals passed to pushMessage
MetaRecord(str) == [id |-> Undefined, event |-> "__meta", data |-> Text(str), raw |-> Undefined]

-----------------------------------------------------------------------------
(* The component state as one record, and its write-back.                  *)

Prog ==
    [esRef |-> esRef, readyState |-> readyState, connected |-> connected,
     statusText |-> statusText, messages |-> messages, attempts |-> attempts,
     attemptsRef |-> attemptsRef, manualPayload |-> manualPayload,
     timers |-> timers, inflight |-> inflight, log |-> log]

Becomes(s) ==
    /\ esRef' = s.esRef
    /\ readyState' = s.readyState
    /\ connected' = s.connected
    /\ statusText' = s.statusText
    /\ messages' = s.messages
    /\ attempts' = s.attempts
    /\ attemptsRef' = s.attemptsRef
    /\ manualPayload' = s.manualPayload
    /\ timers' = s.timers
    /\ inflight' = s.inflight
    /\ log' = s.log

Handles == 1..Len(readyState)

Live(rs) == {h \in 1..Len(rs) : rs[h] # "CLOSED"}

-----------------------------------------------------------------------------
(* The handlers of the component.                                          *)

\* pushMessage appending at the end instead of prepending
pushMessageAppend(s, msg) ==
    [s EXCEPT !.messages = Slice0(@ \o <<msg>>, BufferCap),
              !.log = Append(@, msg)]

\* setMessages((m) => [msg, ...m].slice(0, 200)); log records the call.
pushMessage(s, msg) ==
    [s EXCEPT !.messages = Slice0(<<msg>> \o @, BufferCap),
              !.log = Append(@, msg)]

\* cleanup dropping the reference without closing the handle
cleanupNoClose(s) ==
    [s EXCEPT !.esRef = NoHandle, !.connected = FALSE, !.statusText = "closed"]

\* cleanup that also resets the reconnect counter
cleanupResetsCounter(s) ==
    LET s1 == IF s.esRef # NoHandle
              THEN [s EXCEPT !.readyState[s.esRef] = "CLOSED", !.esRef = NoHandle]
              ELSE s
    IN [s1 EXCEPT !.connected = FALSE, !.statusText = "closed",
                  !.attemptsRef = 0, !.attempts = 0]

\* es.close() never throws on an EventSource; it makes the handle CLOSED.
cleanup(s) ==
    LET s1 == IF s.esRef # NoHandle
              THEN [s EXCEPT !.readyState[s.esRef] = "CLOSED", !.esRef = NoHandle]
              ELSE s
    IN [s1 EXCEPT !.connected = FALSE, !.statusText = "closed"]

\* connect without its leading cleanup()
connectNoCleanup(s, throws) ==
    LET s1 == [s EXCEPT !.statusText = "connecting..."]
        es == Len(s1.readyState) + 1
    IN IF throws
       THEN pushMessage([s1 EXCEPT !.statusText = "failed to create EventSource"],
                        [id |-> Undefined, event |-> "__meta",
                         data |-> [t |-> "string", v |-> "Error: EventSource could not be created"],
                         raw |-> Undefined])
       ELSE [s1 EXCEPT !.readyState = Append(@, "CONNECTING"), !.esRef = es]

\* connect with a catch block that reports nothing
connectSilentCatch(s, throws) ==
    LET s1 == [cleanup(s) EXCEPT !.statusText = "connecting..."]
        es == Len(s1.readyState) + 1
    IN IF throws
       THEN s1
       ELSE [s1 EXCEPT !.readyState = Append(@, "CONNECTING"), !.esRef = es]

\* throws: whether new EventSource(...) throws synchronously
connect(s, throws) ==
    LET s1 == [cleanup(s) EXCEPT !.statusText = "connecting..."]
        es == Len(s1.readyState) + 1
    IN IF throws
       THEN pushMessage([s1 EXCEPT !.statusText = "failed to create EventSource"],
                        MetaRecord("Error: EventSource could not be created"))
       ELSE [s1 EXCEPT !.readyState = Append(@, "CONNECTING"), !.esRef = es]

\* onopen forgetting attemptsRef.current = 0
onopenNoReset(s) ==
    pushMessage([s EXCEPT !.attempts = 0, !.connected = TRUE, !.statusText = "open"],
                [id |-> Undefined, event |-> "__meta",
                 data |-> [t |-> "string", v |-> "connected to " \o fullUrl],
                 raw |-> Undefined])

onopen(s) ==
    pushMessage([s EXCEPT !.attemptsRef = 0, !.attempts = 0,
                          !.connected = TRUE, !.statusText = "open"],
                MetaRecord("connected to " \o fullUrl))

\* the backoff with the exponent counted from 0
BackoffFromOne(n) == Min(BackoffCap, BackoffBase * Pow(2, Min(ExpCap, n) - 1))

\* the backoff without its 30 s cap
BackoffUncapped(n) == BackoffBase * Pow(2, Min(ExpCap, n))

\* the delay computed in es.onerror from the incremented counter
Backoff(n) == Min(BackoffCap, BackoffBase * Pow(2, Min(ExpCap, n)))

\* a pending setTimeout(callback, delay): rem is the time left before it may
\* run; h, n, disc and latest are history (the handle whose error scheduled
\* it, the counter at that error, whether a disconnect has happened since with
\* no explicit connect request after it, and whether that error is still the
\* most recent one)
Timer(delay, h, n) ==
    [delay |-> delay, rem |-> delay, h |-> h, n |-> n, disc |-> FALSE, latest |-> TRUE]

\* onerror leaving the connected flag as it was
onerrorKeepsConnected(s, h) ==
    LET n == s.attemptsRef + 1
        s1 == pushMessage([s EXCEPT !.statusText = "error", !.attemptsRef = n, !.attempts = n],
                          [id |-> Undefined, event |-> "__meta",
                           data |-> [t |-> "string", v |-> "error (attempt " \o ToString(n) \o ")"],
                           raw |-> Undefined])
    IN IF reconnectOnError
       THEN [s1 EXCEPT !.statusText = "retrying in " \o ToString(RoundSeconds(Backoff(n))) \o "s",
                       !.timers = Append(@, Timer(Backoff(n), h, n))]
       ELSE s1

\* onerror scheduling a reconnect whatever reconnectOnError says
onerrorAlwaysRetries(s, h) ==
    LET n == s.attemptsRef + 1
        s1 == pushMessage([s EXCEPT !.connected = FALSE, !.statusText = "error",
                                    !.attemptsRef = n, !.attempts = n],
                          [id |-> Undefined, event |-> "__meta",
                           data |-> [t |-> "string", v |-> "error (attempt " \o ToString(n) \o ")"],
                           raw |-> Undefined])
    IN [s1 EXCEPT !.statusText = "retrying in " \o ToString(RoundSeconds(Backoff(n))) \o "s",
                  !.timers = Append(@, Timer(Backoff(n), h, n))]

\* h: the handle whose error callback this is (the handler itself never reads it)
onerror(s, h) ==
    LET n == s.attemptsRef + 1
        s1 == pushMessage([s EXCEPT !.connected = FALSE, !.statusText = "error",
                                    !.attemptsRef = n, !.attempts = n],
                          MetaRecord("error (attempt " \o ToString(n) \o ")"))
        backoff == Backoff(n)
    IN IF reconnectOnError
       THEN [s1 EXCEPT !.statusText = "retrying in " \o ToString(RoundSeconds(backoff)) \o "s",
                       !.timers = Append(@, Timer(backoff, h, n))]
       ELSE s1

\* the callback's guard without its readyState === CLOSED half
TimerReconnectsOnlyNull(s) == s.esRef = NoHandle

\* whether the setTimeout callback of es.onerror calls connect()
TimerReconnects(s) ==
    IF s.esRef = NoHandle THEN TRUE ELSE s.readyState[s.esRef] = "CLOSED"

timerCallback(s, throws) ==
    IF TimerReconnects(s) THEN connect(s, throws) ELSE s

\* es.onmessage
onmessage(s, e) ==
    pushMessage(s, [id |-> e.lastEventId, event |-> "message",
                    data |-> ParseOrRaw(e.data), raw |-> e.data])

\* es.addEventListener("tick", ...)
ontick(s, e) ==
    pushMessage(s, [id |-> Undefined, event |-> "tick",
                    data |-> ParseOrRaw(e.data), raw |-> e.data])

\* es.addEventListener("heartbeat", ...)
onheartbeat(s, e) ==
    pushMessage(s, [id |-> Undefined, event |-> "heartbeat",
                    data |-> Text(e.data), raw |-> Undefined])

\* es.addEventListener("update", ...)
onupdate(s, e) ==
    pushMessage(s, [id |-> e.lastEventId, event |-> "update",
                    data |-> ParseOrRaw(e.data), raw |-> e.data])

\* the listeners connect() registers on the handle h: an event of type name
\* runs the listener registered for that type, if there is one. es.onopen and
\* es.onerror are the listeners of the types "open" and "error", so a frame
\* the server names so runs them, with the handle's readyState as it is.
dispatch(s, h, name, e) ==
    CASE name = "message" -> onmessage(s, e)
      [] name = "tick" -> ontick(s, e)
      [] name = "heartbeat" -> onheartbeat(s, e)
      [] name = "update" -> onupdate(s, e)
      [] name = "open" -> onopen(s)
      [] name = "error" -> onerror(s, h)
      [] OTHER -> s

\* sendManual posting the payload text without parsing it first
sendManualNoParse(s) ==
    [s EXCEPT !.inflight = Append(@, [body |-> s.manualPayload, res |-> NoResponse])]

\* sendManual up to its first await: parse, then issue the fetch
sendManual(s) ==
    LET body == JSONParse(s.manualPayload)
    IN IF body.ok
       THEN [s EXCEPT !.inflight = Append(@, [body |-> JSONStringify(Structured(body.value)),
                                              res |-> NoResponse])]
       ELSE pushMessage(s, [id |-> Undefined, event |-> "manual-send-error",
                            data |-> Text(body.value), raw |-> Undefined])

\* sendManual call i when its `await fetch` settles: resp.rejected is a
\* network failure (the catch runs), otherwise the call goes on to await
\* res.json() of the response
sendManualFetched(s, i, resp) ==
    IF resp.rejected
    THEN pushMessage([s EXCEPT !.inflight = RemoveAt(@, i)],
                     [id |-> Undefined, event |-> "manual-send-error",
                      data |-> Text("TypeError: Failed to fetch"), raw |-> Undefined])
    ELSE [s EXCEPT !.inflight[i].res = resp]

\* sendManual call i when its `await res.json()` settles: the body parsed, or
\* the SyntaxError caught
sendManualResume(s, i) ==
    LET json == JSONParse(s.inflight[i].res.body)
        s1 == [s EXCEPT !.inflight = RemoveAt(@, i)]
    IN IF json.ok
       THEN pushMessage(s1, [id |-> Undefined, event |-> "manual-send-result",
                             data |-> Structured(json.value), raw |-> Undefined])
       ELSE pushMessage(s1, [id |-> Undefined, event |-> "manual-send-error",
                             data |-> Text(json.value), raw |-> Undefined])

-----------------------------------------------------------------------------
(* Inputs of the environment.                                              *)

Payloads == {DefaultPayload, "not json"}

\* event names the server may send: the four with a frame listener, the two
\* of the handle's own callbacks, and one no listener is registered for
EventNames == {"message", "tick", "heartbeat", "update", "open", "error", "notice"}

Frames == {[lastEventId |-> "7", data |-> "{\"a\":1}"], [lastEventId |-> "", data |-> "not json"]}

Responses ==
    {[rejected |-> TRUE, status |-> 0, body |-> ""],
     [rejected |-> FALSE, status |-> 200, body |-> "{ \"ok\": true }"],
     [rejected |-> FALSE, status |-> 200, body |-> "<html>"],
     [rejected |-> FALSE, status |-> 500, body |-> "{\"error\": \"boom\"}"]}

-----------------------------------------------------------------------------
(* History bookkeeping.                                                    *)

IsOpen == IF esRef = NoHandle THEN FALSE ELSE readyState[esRef] = "OPEN"

Step(name, h, made, disc) ==
    [name |-> name, h |-> h, made |-> made, disc |-> disc,
     tracked |-> (h # NoHandle /\ h = esRef), wasOpen |-> IsOpen, resp |-> NoResponse]

\* a step of the user or of the clock that no claim needs to tell apart
Quiet == [name |-> "quiet", h |-> NoHandle, made |-> FALSE, disc |-> FALSE,
          tracked |-> FALSE, wasOpen |-> FALSE, resp |-> NoResponse]

\* after an error callback: the timers that were already pending (the first k)
\* belong to earlier errors
AfterError(s, k) ==
    [s EXCEPT !.timers = [i \in 1..Len(@) |-> [@[i] EXCEPT !.latest = (i > k)]]]

MarkTimers(ts, flag) == [i \in 1..Len(ts) |-> [ts[i] EXCEPT !.disc = flag]]

PositiveRems(ts) == {ts[i].rem : i \in {j \in 1..Len(ts) : ts[j].rem > 0}}

SetMin(S) == CHOOSE x \in S : \A y \in S : x <= y

-----------------------------------------------------------------------------
(* The state machine.                                                      *)

Init ==
    /\ esRef = NoHandle
    /\ readyState = <<>>
    /\ connected = FALSE
    /\ statusText = "idle"
    /\ messages = <<>>
    /\ attempts = 0
    /\ attemptsRef = 0
    /\ manualPayload = DefaultPayload
    /\ timers = <<>>
    /\ inflight = <<>>
    /\ reconnectOnError \in BOOLEAN
    /\ log = <<>>
    /\ errorsSinceOpen = 0
    /\ op = [name |-> "init", h |-> NoHandle, made |-> FALSE, disc |-> FALSE,
             tracked |-> FALSE, wasOpen |-> FALSE, resp |-> NoResponse]
    /\ nConnects = 0
    /\ nEvents = 0
    /\ nSends = 0
    /\ released = {}

\* the Connect button, or the mount effect: connect()
ConnectReq(throws) ==
    /\ LET s == connect(Prog, throws)
       IN Becomes([s EXCEPT !.timers = MarkTimers(@, FALSE)])
    /\ op' = Step("connect", NoHandle, ~throws, FALSE)
    /\ released' = IF IsOpen THEN released \cup {esRef} ELSE released
    /\ nConnects' = nConnects + 1
    /\ UNCHANGED <<reconnectOnError, errorsSinceOpen, nEvents, nSends>>

\* the Disconnect button, or the unmount effect: cleanup()
Disconnect ==
    /\ LET s == cleanup(Prog)
       IN Becomes([s EXCEPT !.timers = MarkTimers(@, TRUE)])
    /\ op' = Step("disconnect", NoHandle, FALSE, FALSE)
    /\ UNCHANGED <<reconnectOnError, errorsSinceOpen, nConnects, nEvents, nSends, released>>

\* the transport announces the connection of handle h: readyState OPEN, open event
OpenEvent(h) ==
    /\ readyState[h] = "CONNECTING"
    /\ Becomes(onopen([Prog EXCEPT !.readyState[h] = "OPEN"]))
    /\ op' = Step("open", h, FALSE, FALSE)
    /\ errorsSinceOpen' = 0
    /\ nEvents' = nEvents + 1
    /\ UNCHANGED <<reconnectOnError, nConnects, nSends, released>>

\* the transport reports an error on handle h: it either retries by itself
\* (readyState CONNECTING) or gives up (fatal: readyState CLOSED)
ErrorEvent(h, fatal) ==
    /\ readyState[h] # "CLOSED"
    /\ Becomes(AfterError(onerror([Prog EXCEPT !.readyState[h] =
                                        IF fatal THEN "CLOSED" ELSE "CONNECTING"], h),
                           Len(timers)))
    /\ op' = Step("error", h, FALSE, FALSE)
    /\ errorsSinceOpen' = errorsSinceOpen + 1
    /\ nEvents' = nEvents + 1
    /\ UNCHANGED <<reconnectOnError, nConnects, nSends, released>>

\* the transport dispatches a frame of type name on the open handle h; a
\* frame named "open" or "error" is a run of that callback
FrameEvent(h, name, e) ==
    /\ readyState[h] = "OPEN"
    /\ LET s == dispatch(Prog, h, name, e)
       IN Becomes(IF name = "error" THEN AfterError(s, Len(timers)) ELSE s)
    /\ op' = Step(IF name \in {"open", "error"} THEN name ELSE "frame", h, FALSE, FALSE)
    /\ errorsSinceOpen' = CASE name = "open" -> 0
                            [] name = "error" -> errorsSinceOpen + 1
                            [] OTHER -> errorsSinceOpen
    /\ nEvents' = nEvents + 1
    /\ UNCHANGED <<reconnectOnError, nConnects, nSends, released>>

\* time passes until the next pending timer is due
Advance ==
    /\ PositiveRems(timers) # {}
    /\ LET d == SetMin(PositiveRems(timers))
       IN timers' = [i \in 1..Len(timers) |-> [timers[i] EXCEPT !.rem = Max(0, @ - d)]]
    /\ op' = Quiet
    /\ UNCHANGED <<esRef, readyState, connected, statusText, messages, attempts,
                   attemptsRef, manualPayload, inflight, reconnectOnError, log,
                   errorsSinceOpen, nConnects, nEvents, nSends, released>>

\* the due timer i runs its callback; maxc bounds the calls of connect()
TimerFire(i, throws, maxc) ==
    /\ timers[i].rem = 0
    /\ LET s == [Prog EXCEPT !.timers = RemoveAt(@, i)]
       IN /\ TimerReconnects(s) => nConnects < maxc
          /\ throws => TimerReconnects(s)
          /\ Becomes(timerCallback(s, throws))
          /\ op' = Step("timer", timers[i].h, TimerReconnects(s) /\ ~throws, timers[i].disc)
          /\ nConnects' = IF TimerReconnects(s) THEN nConnects + 1 ELSE nConnects
    /\ UNCHANGED <<reconnectOnError, errorsSinceOpen, nEvents, nSends, released>>

\* the textarea's onChange, or the Reset button
SetManualPayload(p) ==
    /\ p # manualPayload
    /\ manualPayload' = p
    /\ op' = Quiet
    /\ UNCHANGED <<esRef, readyState, connected, statusText, messages, attempts,
                   attemptsRef, timers, inflight, reconnectOnError, log,
                   errorsSinceOpen, nConnects, nEvents, nSends, released>>

\* the Send button: sendManual() runs to its first await
SendManual ==
    /\ Becomes(sendManual(Prog))
    /\ op' = Step("send", NoHandle, FALSE, FALSE)
    /\ nSends' = nSends + 1
    /\ UNCHANGED <<reconnectOnError, errorsSinceOpen, nConnects, nEvents, released>>

\* the fetch of call i settles: rejected, the call ends in its catch;
\* resolved, it runs on to its second await
SendFetched(i, resp) ==
    /\ inflight[i].res = NoResponse
    /\ Becomes(sendManualFetched(Prog, i, resp))
    /\ op' = [Step(IF resp.rejected THEN "settle" ELSE "fetched", NoHandle, FALSE, FALSE)
                 EXCEPT !.resp = resp]
    /\ UNCHANGED <<reconnectOnError, errorsSinceOpen, nConnects, nEvents, nSends, released>>

\* res.json() of call i settles and sendManual() runs to its end
SendSettle(i) ==
    /\ inflight[i].res # NoResponse
    /\ Becomes(sendManualResume(Prog, i))
    /\ op' = [Step("settle", NoHandle, FALSE, FALSE) EXCEPT !.resp = inflight[i].res]
    /\ UNCHANGED <<reconnectOnError, errorsSinceOpen, nConnects, nEvents, nSends, released>>

\* every operation of the component
Next ==
    \/ \E throws \in BOOLEAN : nConnects < MaxConnects /\ ConnectReq(throws)
    \/ Disconnect
    \/ \E h \in Handles : nEvents < MaxEvents /\ OpenEvent(h)
    \/ \E h \in Handles, fatal \in BOOLEAN : nEvents < MaxEvents /\ ErrorEvent(h, fatal)
    \/ \E h \in Handles, name \in EventNames, e \in Frames :
          nEvents < MaxEvents /\ FrameEvent(h, name, e)
    \/ Advance
    \/ \E i \in 1..Len(timers), throws \in BOOLEAN : TimerFire(i, throws, MaxConnects)
    \/ \E p \in Payloads : nSends < MaxSends /\ SetManualPayload(p)
    \/ nSends < MaxSends /\ SendManual
    \/ \E i \in 1..Len(inflight), resp \in Responses : SendFetched(i, resp)
    \/ \E i \in 1..Len(inflight) : SendSettle(i)

Spec == Init /\ [][Next]_vars

\* the side-channel sender alone, beside one connection: the calls of
\* sendManual overlap and settle in any order
NextSend ==
    \/ nConnects = 0 /\ ConnectReq(FALSE)
    \/ \E h \in Handles : nEvents = 0 /\ OpenEvent(h)
    \/ \E p \in Payloads : nSends < SendCalls /\ SetManualPayload(p)
    \/ nSends < SendCalls /\ SendManual
    \/ \E i \in 1..Len(inflight), resp \in Responses : SendFetched(i, resp)
    \/ \E i \in 1..Len(inflight) : SendSettle(i)

SpecSend == Init /\ [][NextSend]_vars

\* a frame the server names after one of the handle's own callbacks (the
\* callbacks do not read the frame)
CallbackNames == {"open", "error"}

CallbackFrame == [lastEventId |-> "", data |-> "{\"a\":1}"]

\* the connection lifecycle alone, explored deeper
NextLife ==
    \/ \E throws \in BOOLEAN : nConnects < LifeConnects /\ ConnectReq(throws)
    \/ Disconnect
    \/ \E h \in Handles : nEvents < LifeEvents /\ OpenEvent(h)
    \/ \E h \in Handles, fatal \in BOOLEAN : nEvents < LifeEvents /\ ErrorEvent(h, fatal)
    \/ \E h \in Handles, e \in Frames : nEvents < LifeEvents /\ FrameEvent(h, "message", e)
    \/ \E h \in Handles, name \in CallbackNames :
          nEvents < LifeEvents /\ FrameEvent(h, name, CallbackFrame)
    \/ Advance
    \/ \E i \in 1..Len(timers), throws \in BOOLEAN : TimerFire(i, throws, LifeConnects)

SpecLife == Init /\ [][NextLife]_vars

\* a transport that also delivers an error callback of a handle that was
\* closed and is no longer tracked
StrayError(h) ==
    /\ readyState[h] = "CLOSED"
    /\ h # esRef
    /\ Becomes(AfterError(onerror(Prog, h), Len(timers)))
    /\ op' = Step("error", h, FALSE, FALSE)
    /\ errorsSinceOpen' = errorsSinceOpen + 1
    /\ nEvents' = nEvents + 1
    /\ UNCHANGED <<reconnectOnError, nConnects, nSends, released>>

NextStray ==
    \/ NextLife
    \/ \E h \in Handles : nEvents < LifeEvents /\ StrayError(h)

SpecStray == Init /\ [][NextStray]_vars

\* one connection on which the transport reports a burst of errors and opens
\* before the first backoff timer is due
NextBackoff ==
    \/ nConnects = 0 /\ ConnectReq(FALSE)
    \/ \E h \in Handles : nEvents < BackoffEvents /\ OpenEvent(h)
    \/ \E h \in Handles, fatal \in BOOLEAN : nEvents < BackoffEvents /\ ErrorEvent(h, fatal)

SpecBackoff == Init /\ [][NextBackoff]_vars

\* no disconnect request; the user's connect requests are bounded and the
\* transport reports errors only among its first LiveErrors events, the
\* component's own reactions are not bounded. The event loop
\* runs every due timer callback and time keeps passing; the transport
\* eventually answers a connecting handle.
NextLive ==
    \/ \E throws \in BOOLEAN : nConnects < LiveConnects /\ ConnectReq(throws)
    \/ \E h \in Handles : OpenEvent(h)
    \/ \E h \in Handles, fatal \in BOOLEAN : nEvents < LiveErrors /\ ErrorEvent(h, fatal)
    \/ Advance
    \/ \E i \in 1..Len(timers), throws \in BOOLEAN :
          TimerFire(i, throws, LiveConnects + LiveErrors + 1)

FairLive ==
    /\ WF_vars(Advance)
    /\ WF_vars(\E i \in 1..Len(timers), throws \in BOOLEAN :
                  TimerFire(i, throws, LiveConnects + LiveErrors + 1))
    /\ WF_vars(\E h \in Handles : OpenEvent(h))

SpecLive == Init /\ [][NextLive]_vars /\ FairLive

\* the k-th frame of a long stream: the handled event types in turn, each
\* frame with its own id and payload
HandledNames == <<"message", "tick", "heartbeat", "update">>

StreamFrame(k) == [lastEventId |-> ToString(k), data |-> "beat " \o ToString(k)]

\* one open connection receiving a long stream of distinct frames
NextBuffer ==
    \/ nConnects = 0 /\ ConnectReq(FALSE)
    \/ \E h \in Handles : nEvents = 0 /\ OpenEvent(h)
    \/ \E h \in Handles :
          /\ Len(log) < MaxBurst
          /\ FrameEvent(h, HandledNames[(Len(log) % 4) + 1], StreamFrame(Len(log)))

SpecBuffer == Init /\ [][NextBuffer]_vars

\* frames with and without an id, with a JSON and a non-JSON payload
FrameInputs ==
    {[lastEventId |-> id, data |-> d] : id \in {"", "7"}, d \in {"{\"a\":1}", "not json"}}

\* one open connection on which the server sends frames of every type
NextFrames ==
    \/ nConnects = 0 /\ ConnectReq(FALSE)
    \/ \E h \in Handles : nEvents = 0 /\ OpenEvent(h)
    \/ \E h \in Handles, name \in EventNames, e \in FrameInputs :
          nEvents < 1 + MaxFrames /\ FrameEvent(h, name, e)

SpecFrames == Init /\ [][NextFrames]_vars

-----------------------------------------------------------------------------
(* The claims.                                                             *)

Last(seq) == seq[Len(seq)]

TransportSteps == {"open", "error", "frame"}

\* C1: a reconnect timer that was pending when the user disconnected, with no
\* explicit connect request since, never creates a new handle when it fires.
C1_DisconnectCancelsReconnect ==
    ~(op.name = "timer" /\ op.disc /\ op.made)

\* C2: at most one handle that was created and not closed exists, and it is
\* the tracked one: when connect() creates a handle every earlier handle is
\* already closed.
C2_AtMostOneLiveHandle ==
    /\ Cardinality(Live(readyState)) <= 1
    /\ \A h \in Handles : readyState[h] # "CLOSED" => h = esRef

C2_Witness ==
    /\ op.name = "connect"
    /\ op.made
    /\ op.wasOpen
    /\ Len(readyState) >= 2
    /\ Live(readyState) = {esRef}

\* C3: the reconnect counter (ref and state) equals the number of error
\* callbacks since the last open callback, is 0 after every open callback, and
\* no step other than an open callback takes it from a non-zero value to 0.
C3_CounterCountsErrors ==
    /\ [](/\ attemptsRef = errorsSinceOpen
          /\ attempts = attemptsRef
          /\ (op.name = "open" => attemptsRef = 0))
    /\ [][(attemptsRef # 0 /\ attemptsRef' = 0) => op'.name = "open"]_vars

C3_Witness ==
    /\ op.name = "open"
    /\ attemptsRef = 0
    /\ \E i \in 1..Len(log) : log[i].data.v = "error (attempt 2)"

\* the delays the claim lists for the 1st to 6th consecutive error, and the
\* delays the component uses
ClaimedDelays == <<1000, 2000, 4000, 8000, 16000, 30000>>

UsedDelays == <<2000, 4000, 8000, 16000, 30000, 30000>>

\* C4 as stated: the timer scheduled by the k-th consecutive error since the
\* last open has delay 1000, 2000, 4000, 8000, 16000, 30000 ms for k = 1..6 and
\* 30000 ms for every further error.
C4_DelaysAsClaimed ==
    (op.name = "error" /\ reconnectOnError) =>
        Last(timers).delay =
            IF errorsSinceOpen <= 6 THEN ClaimedDelays[errorsSinceOpen] ELSE 30000

\* C4 amended: the timer scheduled by the k-th consecutive error since the last
\* open has delay 2000, 4000, 8000, 16000, 30000, 30000 ms for k = 1..6 and
\* 30000 ms for every further error.
C4_DelaysAsUsed ==
    (op.name = "error" /\ reconnectOnError) =>
        /\ timers # <<>>
        /\ Last(timers).delay =
              IF errorsSinceOpen <= 6 THEN UsedDelays[errorsSinceOpen] ELSE 30000

C4_Witness ==
    /\ op.name = "error"
    /\ reconnectOnError
    /\ errorsSinceOpen = 10
    /\ Last(timers).delay = 30000
    /\ timers[1].delay = 2000

\* C5: an error that makes the counter n schedules, when auto-reconnect is on,
\* a timer of exactly min(30000, 1000 * 2^min(n, 6)) ms; no delay exceeds
\* 30000 ms and the delay never decreases as n grows.
C5_BackoffFormula ==
    /\ (op.name = "error" /\ reconnectOnError) =>
          /\ timers # <<>>
          /\ Last(timers).n = attemptsRef
          /\ LET n == attemptsRef
                 e == IF n <= 6 THEN n ELSE 6
                 d == 1000 * 2^e
             IN Last(timers).delay = IF d <= 30000 THEN d ELSE 30000
    /\ \A i \in 1..Len(timers) : timers[i].delay <= 30000
    /\ \A i, j \in 1..Len(timers) :
          timers[i].n <= timers[j].n => timers[i].delay <= timers[j].delay

C5_Witness ==
    /\ op.name = "error"
    /\ reconnectOnError
    /\ attemptsRef = 7
    /\ \E i, j \in 1..Len(timers) : timers[i].n = 4 /\ timers[j].n = 5

\* C6: the buffer holds the min(n, 200) most recently pushed records, newest
\* first, n being the number of pushes so far.
C6_BufferKeepsNewest ==
    /\ Len(messages) = (IF Len(log) <= 200 THEN Len(log) ELSE 200)
    /\ \A i \in 1..Len(messages) : messages[i] = log[Len(log) + 1 - i]

C6_Witness ==
    /\ Len(log) = 250
    /\ Len(messages) = 200
    /\ messages[1] = log[250]
    /\ messages[200] = log[51]
    /\ \A i, j \in 1..Len(log) : i # j => log[i] # log[j]

\* C7 as stated: right after an explicit connect issued while open exactly one
\* live handle exists, and no open, error or frame callback ever comes from a
\* handle such a connect released.
C7_OneHandleAfterReconnect ==
    /\ (op.name = "connect" /\ op.wasOpen) => Cardinality(Live(readyState)) = 1
    /\ op.name \in TransportSteps => op.h \notin released

\* C7 amended: right after an explicit connect issued while open the only live
\* handle is the new one, or there is none when creating it threw; and no open,
\* error or frame callback ever comes from a handle such a connect released.
C7_NoStaleDelivery ==
    /\ (op.name = "connect" /\ op.wasOpen) =>
          /\ op.made => (Live(readyState) = {esRef} /\ esRef \notin released)
          /\ ~op.made => (Live(readyState) = {} /\ esRef = NoHandle)
    /\ \A h \in released : readyState[h] = "CLOSED"
    /\ op.name \in TransportSteps => op.h \notin released

C7_Witness ==
    /\ released # {}
    /\ op.name = "frame"
    /\ op.h = esRef
    /\ messages[1].event = "message"

\* C8: an error callback of a handle that is not the tracked handle changes
\* neither counter, connected flag, status text nor buffer, and schedules no timer.
C8_StrayErrorIsNoOp ==
    [][(op'.name = "error" /\ ~op'.tracked) =>
          UNCHANGED <<attemptsRef, attempts, connected, statusText, messages, timers>>]_vars

\* C9: sendManual on a payload that is not JSON issues no request and appends
\* exactly one record, "manual-send-error", carrying the parse failure text.
C9_MalformedPayload ==
    [][(nSends' = nSends + 1 /\ manualPayload = "not json") =>
          /\ inflight' = inflight
          /\ Len(log') = Len(log) + 1
          /\ Last(log').event = "manual-send-error"
          /\ Last(log').data =
                [t |-> "string",
                 v |-> "SyntaxError: Unexpected token 'o', \"not json\" is not valid JSON"]
          /\ messages' = <<Last(log')>> \o messages]_vars

C9_Witness ==
    /\ op.name = "send"
    /\ manualPayload = "not json"
    /\ inflight = <<>>
    /\ messages # <<>>
    /\ messages[1].event = "manual-send-error"

\* the connection state sendManual must leave alone
ConnectionVars == <<esRef, readyState, connected, statusText, attempts, attemptsRef, timers>>

\* the record a settled request should produce: a result for a 2xx response
\* with a JSON body, an error for a network failure, a non-2xx status or a
\* body that is not JSON
JsonBodies == {"{ \"ok\": true }", "{\"error\": \"boom\"}"}

SettleLabel(resp) ==
    IF ~resp.rejected /\ resp.status >= 200 /\ resp.status < 300 /\ resp.body \in JsonBodies
    THEN "manual-send-result" ELSE "manual-send-error"

\* C10: every step of sendManual leaves the connection state unchanged; a parse
\* failure and a settled request each add exactly one record,
\* "manual-send-result" on success and "manual-send-error" otherwise.
C10_SendLeavesConnection ==
    [][(op'.name \in {"send", "fetched", "settle"}) =>
          /\ UNCHANGED ConnectionVars
          /\ op'.name = "fetched" => log' = log
          /\ (op'.name = "send" /\ manualPayload = "not json") =>
                (Len(log') = Len(log) + 1 /\ Last(log').event = "manual-send-error")
          /\ (op'.name = "send" /\ manualPayload # "not json") => log' = log
          /\ op'.name = "settle" =>
                /\ Len(log') = Len(log) + 1
                /\ Last(log').event = SettleLabel(op'.resp)]_vars

\* the part of C10 about the connection state alone
SendKeepsConnectionState ==
    [][(op'.name \in {"send", "fetched", "settle"}) => UNCHANGED ConnectionVars]_vars

\* C11: every frame the transport dispatches, whatever its event name, adds
\* one record carrying that event name to the buffer.
C11_EveryFrameRecorded ==
    [][\A h \in Handles, name \in EventNames, e \in FrameInputs :
          FrameEvent(h, name, e) =>
              /\ Len(log') = Len(log) + 1
              /\ Last(log').event = name
              /\ messages' # <<>>
              /\ messages'[1] = Last(log')]_vars

\* C12: the record pushed for a frame of a handled type that has an id
\* carries that id.
C12_IdCarriedForward ==
    [][\A h \in Handles, i \in 1..4, e \in FrameInputs :
          (FrameEvent(h, HandledNames[i], e) /\ e.lastEventId # "") =>
              /\ Len(log') = Len(log) + 1
              /\ Last(log').id = e.lastEventId]_vars

\* the decoded value of the payloads of FrameInputs that are JSON
DecodedPayload(d) ==
    IF d = "{\"a\":1}" THEN [t |-> "json", v |-> "{\"a\":1}"] ELSE [t |-> "string", v |-> d]

\* C13: the record pushed for a frame of a handled type holds the decoded
\* value when the payload is JSON and the raw payload string otherwise; the
\* frame changes no connection state and adds no other record.
C13_DecodeOrRaw ==
    [][\A h \in Handles, i \in 1..4, e \in FrameInputs :
          FrameEvent(h, HandledNames[i], e) =>
              /\ Len(log') = Len(log) + 1
              /\ Last(log').event = HandledNames[i]
              /\ Last(log').data = DecodedPayload(e.data)
              /\ UNCHANGED ConnectionVars]_vars

\* C14: a timer scheduled by an error on handle H creates no new handle once
\* a later connect() has replaced H by another handle, whatever the state of
\* that handle (the timers a disconnect left pending are the subject of C1).
C14_SupersededTimerIsNoOp ==
    (op.name = "timer" /\ op.made /\ ~op.disc) => Len(readyState) = op.h + 1

\* C15: a timer never starts a reconnect while the timer of the most recent
\* error is still pending and not yet due.
C15_NoReconnectBeforeDeadline ==
    [][(op'.name = "timer" /\ op'.made) =>
          \A j \in 1..Len(timers) : timers[j].latest => timers[j].rem = 0]_vars

\* C16: with reconnectOnError disabled no reconnect timer is ever pending, an
\* error callback leaves the status text "error" (connected flag false), and
\* the only step that enters "connecting..." or creates a handle is an
\* explicit connect request.
C16_NoRetryWhenDisabled ==
    /\ [](~reconnectOnError =>
            /\ timers = <<>>
            /\ op.name = "error" => (statusText = "error" /\ ~connected))
    /\ [][(/\ ~reconnectOnError
           /\ \/ statusText' = "connecting..." /\ statusText # "connecting..."
              \/ Len(readyState') > Len(readyState)) => op'.name = "connect"]_vars

\* an error with reconnectOnError disabled, after an earlier error and a
\* browser-level reopen of the same handle
C16_Witness ==
    /\ ~reconnectOnError
    /\ op.name = "error"
    /\ statusText = "error"
    /\ attemptsRef = 1
    /\ Len(log) >= 4

\* C17: when new EventSource throws inside connect(), called by a connect
\* request or by a timer, the step completes with the status text "failed to
\* create EventSource", exactly one "__meta" record carrying the error text
\* pushed at the head of the buffer, no handle tracked or created, the
\* connected flag false, the reconnect counter unchanged and no timer added.
C17_CreationFailureAbsorbed ==
    [][(ConnectReq(TRUE) \/ \E i \in 1..Len(timers) : TimerFire(i, TRUE, LifeConnects)) =>
          /\ statusText' = "failed to create EventSource"
          /\ Len(log') = Len(log) + 1
          /\ Last(log') = MetaRecord("Error: EventSource could not be created")
          /\ messages' # <<>>
          /\ messages'[1] = Last(log')
          /\ esRef' = NoHandle
          /\ Len(readyState') = Len(readyState)
          /\ ~connected'
          /\ attemptsRef' = attemptsRef
          /\ attempts' = attempts
          /\ Len(timers') <= Len(timers)]_vars

\* the creation threw inside a timer-driven reconnect, after one error
C17_Witness ==
    /\ op.name = "timer"
    /\ ~op.made
    /\ statusText = "failed to create EventSource"
    /\ attemptsRef = 1
    /\ esRef = NoHandle
    /\ messages # <<>>

\* C18: a disconnect closes and untracks the tracked handle if there is one,
\* sets the status text "closed" and clears the connected flag, creates or
\* reopens no handle and changes neither the buffer nor the reconnect
\* counter; and in every reachable state cleanup applied twice gives the
\* state cleanup applied once gives, with or without a tracked handle.
C18_DisconnectIdempotent ==
    /\ [](cleanup(cleanup(Prog)) = cleanup(Prog))
    /\ [][Disconnect =>
            /\ esRef' = NoHandle
            /\ readyState' = [h \in 1..Len(readyState) |->
                                 IF h = esRef THEN "CLOSED" ELSE readyState[h]]
            /\ statusText' = "closed"
            /\ ~connected'
            /\ messages' = messages
            /\ log' = log
            /\ attemptsRef' = attemptsRef
            /\ attempts' = attempts]_vars

\* a disconnect of an open connection that had delivered records
C18_Witness ==
    /\ op.name = "disconnect"
    /\ op.wasOpen
    /\ esRef = NoHandle
    /\ \A h \in Handles : readyState[h] = "CLOSED"
    /\ statusText = "closed"
    /\ Len(messages) >= 2

\* C19: in every reachable state the connected flag is true exactly when the
\* status text is "open", and when it is true a handle is tracked and that
\* handle is open (its open callback has fired and nothing closed it since).
C19_ConnectedIffOpen ==
    /\ connected <=> statusText = "open"
    /\ connected => IsOpen

\* connected on the second handle, after the first was replaced
C19_Witness ==
    /\ connected
    /\ statusText = "open"
    /\ esRef = 2
    /\ readyState[1] = "CLOSED"
    /\ op.name = "open"
    /\ op.h = 2

\* an error callback has just left the tracked handle closed, with
\* reconnectOnError enabled
ClosedByError ==
    /\ reconnectOnError
    /\ op.name = "error"
    /\ op.tracked
    /\ IF esRef = NoHandle THEN FALSE ELSE readyState[esRef] = "CLOSED"

\* C20 as stated: with reconnectOnError enabled and no disconnect, every
\* error that leaves the tracked handle closed is eventually followed by a
\* connect() that creates a fresh handle, and then by the open state with the
\* reconnect counter at 0.
C20_ErrorLeadsToReopen ==
    /\ \A k \in 0..(LiveConnects + LiveErrors + 1) :
          (ClosedByError /\ Len(readyState) = k) ~> (Len(readyState) > k)
    /\ ClosedByError ~> (connected /\ attemptsRef = 0)

\* the state a throwing connect() leaves
CreationFailed ==
    /\ statusText = "failed to create EventSource"
    /\ esRef = NoHandle
    /\ ~connected

\* C20: with reconnectOnError enabled and no disconnect, every error that
\* leaves the tracked handle closed is eventually followed by a call of
\* connect(), which creates a fresh handle or, when creating it throws, leaves
\* the status text "failed to create EventSource" and no handle tracked; and
\* the component eventually either is open with the reconnect counter at 0 or
\* is in that failed state with no reconnect timer pending.
C20_ErrorLeadsToConnect ==
    /\ \A k \in 0..(LiveConnects + LiveErrors + 1) :
          (ClosedByError /\ nConnects = k) ~> (nConnects > k)
    /\ \A k \in 0..(LiveConnects + LiveErrors + 1) :
          (ClosedByError /\ Len(readyState) = k) ~> (Len(readyState) > k \/ CreationFailed)
    /\ ClosedByError ~>
          ((connected /\ attemptsRef = 0) \/ (CreationFailed /\ timers = <<>>))

\* the second consecutive fatal error, on the second handle
C20_Witness ==
    /\ ClosedByError
    /\ esRef = 2
    /\ attemptsRef = 2
    /\ statusText = "retrying in 4s"

====
